---- MODULE Spec2Model ----
(***************************************************************************)
(* Model of the data-preparation pipeline of Preprocessingv2.py            *)
(* (DataProcessor: paginated fetch with retry, date-range filter, seeded   *)
(* sampler, JSON checkpoints, main) and of the filter loop of              *)
(* Preprocessingv3.py (process_data).                                      *)
(***************************************************************************)
EXTENDS Integers, Sequences, FiniteSets, TLC

VARIABLES
    \* ---- fetch_data_with_pagination (Preprocessingv2.py 34-84)
    limit,          \* parameter: records per request
    max_retries,    \* parameter: attempts per page
    remote,         \* the remote collection behind the API (unchanged during a fetch)
    fpc,            \* position in the function: "idle","while_true","while_retries","request","returned"
    all_data,       \* local: accumulated records
    offset,         \* local: zero-based offset of the next request
    retries,        \* local: failed attempts at the current page
    fresult,        \* the value returned ("pending" until the function returns)
    reqlog,         \* history: the requests issued, in order
    \* ---- the date filters (Preprocessingv2.py 86-125, Preprocessingv3.py 36-44)
    f_data,         \* argument: the records to filter
    f_data_in,      \* history: the records as they were passed in
    f_start_year,   \* argument
    f_end_year,     \* argument
    f_out,          \* what filter_by_date_range returned or raised ("pending" before the call)
    v3_out,         \* what the filter loop of process_data produced or raised
    f_out2,         \* what filter_by_date_range returned when called on its own output
    \* ---- random_sample (Preprocessingv2.py 127-146)
    rng,            \* state of the process-wide generator of module random
    s_data,         \* arguments of the observed call
    s_size,
    s_seed,
    s_calls,        \* history: number of observed calls made (0, 1 or 2)
    s_first,        \* history: what the first observed call returned
    s_last,         \* history: what the latest observed call returned
    s_disturbed,    \* history: the generator was used by other code between the observed calls
    \* ---- main (Preprocessingv2.py 193-238) and the checkpoint files
    files,          \* the files of the output directory: raw, filtered, final
    m_pc,           \* position in main: the line about to run, or "fetching", "done"
    raw_data,       \* locals of main ("pending" while unbound)
    filtered_data,
    final_data,
    m_trace,        \* history: what main has done so far, in order
    files0,         \* history: the files as they were when main was first started
    m_run,          \* history: 1 in the first run of main, 2 in a second run
    files1          \* history: the files as they were when the second run was started

fetchVars == <<limit, max_retries, remote, fpc, all_data, offset, retries, fresult, reqlog>>
filterVars == <<f_data, f_data_in, f_start_year, f_end_year, f_out, v3_out, f_out2>>
sampleVars == <<s_data, s_size, s_seed, s_calls, s_first, s_last, s_disturbed>>
mainHist == <<files0, m_run, files1>>
mainVars == <<files, m_pc, raw_data, filtered_data, final_data, m_trace, mainHist>>

vars == <<fetchVars, filterVars, rng, sampleVars, mainVars>>

----------------------------------------------------------------------------
(* Bounds of the model *)

MaxLimit == 3          \* page sizes 1..MaxLimit
MaxRemote == 5         \* remote collections of 0..MaxRemote records
MaxRetriesArg == 3     \* max_retries in 0..MaxRetriesArg
MaxRecords == 3        \* record sequences of 0..MaxRecords records are filtered
MaxSampleData == 4     \* record sequences of 0..MaxSampleData records are sampled
MaxSampleSize == 3     \* sample_size in 0..MaxSampleSize
MaxSeed == 2           \* seed in 0..MaxSeed
MaxMainRecords == 2    \* main runs against remote collections of 0..MaxMainRecords records

----------------------------------------------------------------------------
(* Python values *)

\* A list-valued result and the None result, as tagged values.
PyList(v) == [tag |-> "list", v |-> v]
None == [tag |-> "None", v |-> <<>>]
Pending == [tag |-> "pending", v |-> <<>>]

Min(a, b) == IF a <= b THEN a ELSE b

----------------------------------------------------------------------------
(* fetch_data_with_pagination *)

\* A request either answers with a JSON list (the page) or raises a
\* RequestException (connection error, non-2xx status, undecodable body).
\* The handler of lines 82-84 is for other exceptions, which this
\* environment does not raise.

\* The API's answer to ?$limit=l&$offset=o over the collection coll:
\* the records at zero-based positions o .. o+l-1 that exist.
Page(coll, o, l) ==
    IF o >= Len(coll) THEN <<>>
    ELSE SubSeq(coll, o + 1, Min(o + l, Len(coll)))

\* variant: the offset advances by one record
NextOffsetByOne(o, l) == o + 1

\* line 70: offset += limit
NextOffset(o, l) == o + l

\* variant: <= for <
ShortPageOrFull(batch, l) == Len(batch) <= l

\* line 67: the page is the last one
ShortPage(batch, l) == Len(batch) < l

\* line 76: the retries for this page are exhausted
Exhausted(r, m) == r >= m

\* variant: the records fetched so far are returned
AbortValuePartial(acc) == PyList(acc)

\* line 78: return None (the accumulated records acc are dropped)
AbortValue(acc) == None

\* variant: the count of failed attempts is carried over to the next page
RetriesCarriedOver(r) == r

\* line 52: retries = 0 at the start of every page
RetriesForNewPage(r) == 0

\* lines 48-49: entry of the function
FetchEnter ==
    /\ fpc = "idle"
    /\ all_data' = <<>>
    /\ offset' = 0
    /\ fpc' = "while_true"
    /\ UNCHANGED <<limit, max_retries, remote, retries, fresult, reqlog>>

\* lines 51-52: while True: retries = 0
FetchWhileTrue ==
    /\ fpc = "while_true"
    /\ retries' = RetriesForNewPage(retries)
    /\ fpc' = "while_retries"
    /\ UNCHANGED <<limit, max_retries, remote, all_data, offset, fresult, reqlog>>

\* line 53: while retries < max_retries; when false, control falls back to line 51
FetchWhileRetries ==
    /\ fpc = "while_retries"
    /\ fpc' = IF retries < max_retries THEN "request" ELSE "while_true"
    /\ UNCHANGED <<limit, max_retries, remote, all_data, offset, retries, fresult, reqlog>>

\* lines 55-72: the request succeeds with the page at offset
FetchPageOk ==
    /\ fpc = "request"
    /\ LET batch_data == Page(remote, offset, limit) IN
         /\ reqlog' = Append(reqlog, [offset |-> offset, ok |-> TRUE, n |-> Len(batch_data)])
         /\ IF batch_data = <<>>
            THEN /\ fresult' = PyList(all_data)
                 /\ fpc' = "returned"
                 /\ UNCHANGED <<all_data, offset>>
            ELSE /\ all_data' = all_data \o batch_data
                 /\ IF ShortPage(batch_data, limit)
                    THEN /\ fresult' = PyList(all_data')
                         /\ fpc' = "returned"
                         /\ UNCHANGED offset
                    ELSE /\ offset' = NextOffset(offset, limit)
                         /\ fpc' = "while_true"
                         /\ UNCHANGED fresult
    /\ UNCHANGED <<limit, max_retries, remote, retries>>

\* lines 55-57, 74-80: the request raises a RequestException
FetchPageFail ==
    /\ fpc = "request"
    /\ reqlog' = Append(reqlog, [offset |-> offset, ok |-> FALSE, n |-> 0])
    /\ retries' = retries + 1
    /\ IF Exhausted(retries', max_retries)
       THEN /\ fresult' = AbortValue(all_data)
            /\ fpc' = "returned"
       ELSE /\ fresult' = fresult
            /\ fpc' = "while_retries"
    /\ UNCHANGED <<limit, max_retries, remote, all_data, offset>>

----------------------------------------------------------------------------
(* Strings and datetime.strptime *)

\* A string is the sequence of its characters.
Digits == {"0", "1", "2", "3", "4", "5", "6", "7", "8", "9"}
DigitSeq == <<"0", "1", "2", "3", "4", "5", "6", "7", "8", "9">>
DigitVal(c) == (CHOOSE i \in 1..10 : DigitSeq[i] = c) - 1

UpperSeq == <<"A", "B", "C", "D", "E", "F", "G", "H", "I", "J", "K", "L", "M",
              "N", "O", "P", "Q", "R", "S", "T", "U", "V", "W", "X", "Y", "Z">>
LowerSeq == <<"a", "b", "c", "d", "e", "f", "g", "h", "i", "j", "k", "l", "m",
              "n", "o", "p", "q", "r", "s", "t", "u", "v", "w", "x", "y", "z">>
Lower(c) ==
    IF \E i \in 1..26 : UpperSeq[i] = c
    THEN LowerSeq[CHOOSE i \in 1..26 : UpperSeq[i] = c]
    ELSE c
LowerStr(s) == [i \in 1..Len(s) |-> Lower(s[i])]

IsSpace(c) == c \in {" ", "\t"}

\* str.split('.')[0]: the part before the first '.', the whole string when
\* there is none.
SplitDotFirst(s) ==
    IF \E i \in 1..Len(s) : s[i] = "."
    THEN SubSeq(s, 1, (CHOOSE i \in 1..Len(s) : s[i] = "." /\ \A j \in 1..(i - 1) : s[j] # ".") - 1)
    ELSE s

\* A format is a sequence of directives (%c), literal characters and blanks.
Dir(c) == [k |-> "dir", c |-> c]
Lit(c) == [k |-> "lit", c |-> c]
Blank == [k |-> "ws", c |-> " "]

AllDigits(s, p, n) == p + n - 1 <= Len(s) /\ \A i \in p..(p + n - 1) : s[i] \in Digits

RECURSIVE NumVal(_, _, _)
NumVal(s, p, n) == IF n = 0 THEN 0 ELSE NumVal(s, p, n - 1) * 10 + DigitVal(s[p + n - 1])

MonthAbbr == <<<<"j","a","n">>, <<"f","e","b">>, <<"m","a","r">>, <<"a","p","r">>,
               <<"m","a","y">>, <<"j","u","n">>, <<"j","u","l">>, <<"a","u","g">>,
               <<"s","e","p">>, <<"o","c","t">>, <<"n","o","v">>, <<"d","e","c">>>>

\* The values a two-digit and a one-digit spelling of a numeric directive may
\* have (the alternatives of its regular expression in _strptime).
TwoDigitRange(c) ==
    CASE c \in {"m", "I"} -> 1..12
      [] c = "d" -> 1..31
      [] c = "H" -> 0..23
      [] c = "M" -> 0..59
      [] c = "S" -> 0..61
OneDigitRange(c) == IF c \in {"m", "I", "d"} THEN 1..9 ELSE 0..9

\* The ways directive c matches string s at position p: length consumed and value.
DirMatches(c, s, p) ==
    CASE c = "Y" ->
           IF AllDigits(s, p, 4) THEN {[len |-> 4, val |-> NumVal(s, p, 4)]} ELSE {}
      [] c \in {"m", "I", "d", "H", "M", "S"} ->
           (IF AllDigits(s, p, 2) /\ NumVal(s, p, 2) \in TwoDigitRange(c)
            THEN {[len |-> 2, val |-> NumVal(s, p, 2)]} ELSE {})
           \cup
           (IF AllDigits(s, p, 1) /\ NumVal(s, p, 1) \in OneDigitRange(c)
            THEN {[len |-> 1, val |-> NumVal(s, p, 1)]} ELSE {})
           \cup
           (IF c = "d" /\ p + 1 <= Len(s) /\ s[p] = " " /\ AllDigits(s, p + 1, 1)
               /\ NumVal(s, p + 1, 1) \in 1..9
            THEN {[len |-> 2, val |-> NumVal(s, p + 1, 1)]} ELSE {})
      [] c = "f" ->
           {[len |-> n, val |-> 0] : n \in {n \in 1..6 : AllDigits(s, p, n)}}
      [] c = "b" ->
           {[len |-> 3, val |-> i] :
              i \in {i \in 1..12 : p + 2 <= Len(s) /\ LowerStr(SubSeq(s, p, p + 2)) = MonthAbbr[i]}}
      [] c = "p" ->
           IF p + 1 <= Len(s) /\ LowerStr(SubSeq(s, p, p + 1)) \in {<<"a", "m">>, <<"p", "m">>}
           THEN {[len |-> 2, val |-> 0]} ELSE {}

\* A partial match: next position and the fields found so far.
Found(st, c, mt) ==
    [pos |-> st.pos + mt.len,
     Y |-> IF c = "Y" THEN mt.val ELSE st.Y,
     m |-> IF c \in {"m", "b"} THEN mt.val ELSE st.m,
     d |-> IF c = "d" THEN mt.val ELSE st.d,
     S |-> IF c = "S" THEN mt.val ELSE st.S]

\* One format element applied to a partial match.
MatchElement(el, s, st) ==
    CASE el.k = "dir" -> {Found(st, el.c, mt) : mt \in DirMatches(el.c, s, st.pos)}
      [] el.k = "lit" ->
           IF st.pos <= Len(s) /\ Lower(s[st.pos]) = Lower(el.c)
           THEN {[st EXCEPT !.pos = st.pos + 1]} ELSE {}
      [] el.k = "ws" ->
           {[st EXCEPT !.pos = q] :
              q \in {q \in (st.pos + 1)..(Len(s) + 1) : \A i \in st.pos..(q - 1) : IsSpace(s[i])}}

RECURSIVE MatchFormat(_, _, _, _)
MatchFormat(fmt, k, s, sts) ==
    IF k > Len(fmt) \/ sts = {} THEN sts
    ELSE MatchFormat(fmt, k + 1, s, UNION {MatchElement(fmt[k], s, st) : st \in sts})

IsLeap(y) == (y % 4 = 0 /\ y % 100 # 0) \/ y % 400 = 0
DaysInMonth(y, m) ==
    IF m = 2 THEN (IF IsLeap(y) THEN 29 ELSE 28)
    ELSE IF m \in {4, 6, 9, 11} THEN 30 ELSE 31

ValueError == [ok |-> FALSE, year |-> 0]

\* datetime.strptime(s, fmt): the whole string must match the format and the
\* fields must form a date and time; otherwise ValueError.
Strptime(s, fmt) ==
    LET start == [pos |-> 1, Y |-> 1900, m |-> 1, d |-> 1, S |-> 0]
        full == {st \in MatchFormat(fmt, 1, s, {start}) : st.pos = Len(s) + 1}
    IN  IF full = {} THEN ValueError
        ELSE LET st == CHOOSE st \in full : TRUE IN
             IF st.Y >= 1 /\ st.d <= DaysInMonth(st.Y, st.m) /\ st.S <= 59
             THEN [ok |-> TRUE, year |-> st.Y]
             ELSE ValueError

----------------------------------------------------------------------------
(* filter_by_date_range (Preprocessingv2.py) and the filter loop of
   process_data (Preprocessingv3.py) *)

\* lines 101-105
date_formats ==
    << <<Dir("Y"), Lit("-"), Dir("m"), Lit("-"), Dir("d"), Lit("T"),
         Dir("H"), Lit(":"), Dir("M"), Lit(":"), Dir("S"), Lit("."), Dir("f")>>,
       <<Dir("m"), Lit("/"), Dir("d"), Lit("/"), Dir("Y")>>,
       <<Dir("Y"), Blank, Dir("b"), Blank, Dir("d"), Blank,
         Dir("I"), Lit(":"), Dir("M"), Lit(":"), Dir("S"), Blank, Dir("p")>> >>

\* Preprocessingv3.py line 40
v3_format ==
    <<Dir("Y"), Lit("-"), Dir("m"), Lit("-"), Dir("d"), Lit("T"),
      Dir("H"), Lit(":"), Dir("M"), Lit(":"), Dir("S")>>

\* Values of a record field: a string, or a value that is no string.
StrV(s) == [t |-> "str", s |-> s]
NumV == [t |-> "num", s |-> <<>>]

Raised(exc) == [tag |-> exc, v |-> <<>>]

\* lines 112-119: the formats are tried in order on date_str.split('.')[0];
\* the first that parses wins.
RECURSIVE TryFormats(_, _, _)
TryFormats(date_str, formats, k) ==
    IF k > Len(formats) THEN ValueError
    ELSE LET parsed_date == Strptime(SplitDotFirst(date_str), formats[k]) IN
         IF parsed_date.ok THEN parsed_date ELSE TryFormats(date_str, formats, k + 1)

\* variant: the upper bound is not compared
InRangeNoUpper(year, start_year, end_year) == start_year <= year

\* line 121: start_year <= parsed_date.year <= end_year
InRange(year, start_year, end_year) == start_year <= year /\ year <= end_year

\* variant: the entry is put in front of the entries kept so far
KeepEntryInFront(filtered, entry) == <<entry>> \o filtered

\* line 122: filtered_data.append(entry)
KeepEntry(filtered, entry) == Append(filtered, entry)

\* lines 107-125: the loop over data from entry i on; filtered is filtered_data so far.
RECURSIVE FilterLoop(_, _, _, _, _, _)
FilterLoop(data, i, filtered, start_year, end_year, date_column) ==
    IF i > Len(data) THEN PyList(filtered)
    ELSE LET entry == data[i] IN
         IF date_column \notin DOMAIN entry
         THEN FilterLoop(data, i + 1, filtered, start_year, end_year, date_column)
         ELSE IF entry[date_column].t # "str"
         THEN Raised("AttributeError")
         ELSE LET parsed_date == TryFormats(entry[date_column].s, date_formats, 1) IN
              IF parsed_date.ok /\ InRange(parsed_date.year, start_year, end_year)
              THEN FilterLoop(data, i + 1, KeepEntry(filtered, entry),
                              start_year, end_year, date_column)
              ELSE FilterLoop(data, i + 1, filtered, start_year, end_year, date_column)

\* lines 86-125
filter_by_date_range(data, start_year, end_year, date_column) ==
    FilterLoop(data, 1, <<>>, start_year, end_year, date_column)

\* Preprocessingv3.py lines 36-44: KeyError and ValueError skip the entry, any
\* other exception leaves the loop.
RECURSIVE V3FilterLoop(_, _, _)
V3FilterLoop(raw, i, filtered) ==
    IF i > Len(raw) THEN PyList(filtered)
    ELSE LET entry == raw[i] IN
         IF "date_rptd" \notin DOMAIN entry
         THEN V3FilterLoop(raw, i + 1, filtered)
         ELSE IF entry["date_rptd"].t # "str"
         THEN Raised("AttributeError")
         ELSE LET date == Strptime(SplitDotFirst(entry["date_rptd"].s), v3_format) IN
              IF date.ok /\ 2013 <= date.year /\ date.year <= 2019
              THEN V3FilterLoop(raw, i + 1, Append(filtered, entry))
              ELSE V3FilterLoop(raw, i + 1, filtered)

v3_filter(raw) == V3FilterLoop(raw, 1, <<>>)

\* Date strings of the model.
IsoInRange == <<"2","0","1","5","-","0","7","-","0","4","T","1","0",":","0","0",":","0","0",".","0","0","0">>
IsoZ == <<"2","0","1","4","-","0","3","-","0","1","T","0","0",":","0","0",":","0","0",".","0","0","0","Z">>
SlashInRange == <<"0","1","/","1","5","/","2","0","1","4">>
AmPmInRange == <<"2","0","1","4"," ","M","a","r"," ","0","1"," ","1","1",":","5","9",":","0","0"," ","P","M">>
SlashAbove == <<"0","1","/","1","5","/","2","0","2","0">>
SlashNoSuchDay == <<"0","2","/","3","0","/","2","0","1","4">>

DateStrings ==
    {IsoInRange, IsoZ, SlashInRange, AmPmInRange, SlashAbove, SlashNoSuchDay}

\* The records of the model: a date string under date_rptd, no date_rptd
\* field, or a date_rptd that is no string.
EntryPool ==
    {[dr_no |-> 1, date_rptd |-> StrV(s)] : s \in DateStrings}
    \cup {[dr_no |-> 1]}
    \cup {[dr_no |-> 1, date_rptd |-> NumV]}

RECURSIVE SeqsUpTo(_, _)
SeqsUpTo(S, n) ==
    IF n = 0 THEN {<<>>}
    ELSE LET shorter == SeqsUpTo(S, n - 1) IN
         shorter \cup {Append(q, x) : q \in {q \in shorter : Len(q) = n - 1}, x \in S}

YearPairs == {<<2013, 2019>>, <<2014, 2014>>, <<2016, 2012>>}

----------------------------------------------------------------------------
(* random_sample and the generator of module random *)

\* The generator is a deterministic state machine; its states are 0..15 here.
RngStates == 0..15

\* random.seed(seed): the state depends on the seed alone.
RngSeed(seed) == (7 * seed + 1) % 16

\* One draw advances the state.
RngNext(g) == (5 * g + 3) % 16

\* _randbelow(n): a draw, reduced to 0..n-1.
Randbelow(g, n) == [rng |-> RngNext(g), val |-> RngNext(g) % n]

\* random.sample(population, k) for k <= len(population): k picks from a pool,
\* each picked slot refilled with the pool's last unpicked element.
RECURSIVE SampleLoop(_, _, _, _, _)
SampleLoop(g, pool, i, k, result) ==
    IF i = k THEN [rng |-> g, out |-> PyList(result)]
    ELSE LET n == Len(pool)
             draw == Randbelow(g, n - i)
             j == draw.val + 1
         IN  SampleLoop(draw.rng, [pool EXCEPT ![j] = pool[n - i]], i + 1, k,
                        Append(result, pool[j]))

\* random.sample raises ValueError unless 0 <= k <= len(population)
RandomSample(g, population, k) ==
    IF k < 0 \/ k > Len(population)
    THEN [rng |-> g, out |-> Raised("ValueError")]
    ELSE SampleLoop(g, population, 0, k, <<>>)

\* variant: the generator is not re-seeded
KeepGenerator(g, seed) == g

\* line 139: random.seed(seed)
SeedGenerator(g, seed) == RngSeed(seed)

\* variant: >= for <=
AtLeastSampleSize(n, sample_size) == n >= sample_size

\* line 140: if len(data) <= sample_size
WithinSampleSize(n, sample_size) == n <= sample_size

\* lines 139-146, called with the generator in state g: the generator's state
\* afterwards and the list returned.
random_sample(g, d, sample_size, seed) ==
    LET seeded == SeedGenerator(g, seed) IN
    IF WithinSampleSize(Len(d), sample_size)
    THEN [rng |-> seeded, out |-> PyList(d)]
    ELSE RandomSample(seeded, d, sample_size)

\* The records sampled in the model: two records may be equal.
SamplePool == {[dr_no |-> 1], [dr_no |-> 2], [dr_no |-> 3]}

----------------------------------------------------------------------------
(* save_json, load_json and main *)

\* Defaults of fetch_data_with_pagination, used by main's call (line 213).
DefaultLimit == 1000
DefaultMaxRetries == 3

\* main's arguments to the filter and the sampler (lines 219-232).
MainStartYear == 2013
MainEndYear == 2019
MainSampleSize == 10000
MainSeed == 1

\* json.dump writes the text of a list: an opening bracket, one object per
\* record, a closing bracket.
Tok(c) == [tok |-> c, v |-> <<>>]
Obj(entry) == [tok |-> "obj", v |-> <<entry>>]
JsonDump(list) == <<Tok("[")>> \o [i \in 1..Len(list) |-> Obj(list[i])] \o <<Tok("]")>>

\* json.load: the list a complete text holds; any other text raises.
JsonWellFormed(text) ==
    /\ Len(text) >= 2
    /\ text[1] = Tok("[")
    /\ text[Len(text)] = Tok("]")
    /\ \A i \in 2..(Len(text) - 1) : text[i].tok = "obj"
JsonLoad(text) ==
    IF JsonWellFormed(text)
    THEN PyList([i \in 1..(Len(text) - 2) |-> text[i + 1].v[1]])
    ELSE Raised("JSONDecodeError")

NoFile == [exists |-> FALSE, text |-> <<>>]
FileWith(text) == [exists |-> TRUE, text |-> text]

\* What the environment does to a save: it succeeds, open() raises (line
\* 161), or the write raises after open() has truncated the file (line 162).
SaveOutcomes == {"ok", "open_fails", "write_fails"}

\* lines 159-167: the file afterwards
\* (a failed write leaves the part of the text written so far.)
SavedFile(file, list, outcome, written) ==
    CASE outcome = "ok" -> FileWith(JsonDump(list))
      [] outcome = "open_fails" -> file
      [] outcome = "write_fails" -> FileWith(SubSeq(JsonDump(list), 1, written))

\* how much of the text a failed write may leave: nothing, or all but the end
PartialLengths(list) == {0, Len(JsonDump(list)) - 1}

\* lines 164, 167: the value save_json returns
SaveReturns(outcome) == outcome = "ok"

\* lines 179-191: the value load_json returns; readable is FALSE when open()
\* raises.
load_json(file, readable) ==
    IF ~file.exists THEN None
    ELSE IF ~readable THEN None
    ELSE IF JsonLoad(file.text).tag = "list" THEN JsonLoad(file.text)
    ELSE None

\* `if not x` / `if x` for None and lists
Truthy(x) == x.tag = "list" /\ x.v # <<>>

\* line 209: raw_data = processor.load_json(RAW_DATA_FILE); line 211
MainLoadRaw ==
    /\ m_pc = "L209"
    /\ \E readable \in (IF files["raw"].exists THEN BOOLEAN ELSE {TRUE}) :
         /\ raw_data' = load_json(files["raw"], readable)
         /\ m_pc' = IF Truthy(raw_data') THEN "L217" ELSE "L213"
         /\ m_trace' = Append(m_trace, IF files["raw"].exists /\ ~readable THEN "raw_read_failed"
                                        ELSE IF Truthy(raw_data') THEN "raw_loaded"
                                        ELSE "raw_not_loaded")
    /\ UNCHANGED <<mainHist, files, filtered_data, final_data, fetchVars, rng>>

\* line 213: the call of fetch_data_with_pagination() with its defaults
MainCallFetch ==
    /\ m_pc = "L213"
    /\ FetchEnter
    /\ m_pc' = "fetching"
    /\ m_trace' = Append(m_trace, "fetch")
    /\ UNCHANGED <<mainHist, files, raw_data, filtered_data, final_data, rng>>

\* the steps of the fetch, while main waits for it
MainFetching(step) ==
    /\ m_pc = "fetching"
    /\ step
    /\ UNCHANGED <<mainVars, rng>>

\* line 213: the fetch returns; line 214
MainFetchReturns ==
    /\ m_pc = "fetching"
    /\ fpc = "returned"
    /\ raw_data' = fresult
    /\ m_pc' = IF Truthy(raw_data') THEN "L215" ELSE "L217"
    /\ m_trace' = Append(m_trace, IF fresult = None THEN "fetch_failed" ELSE "fetched")
    /\ UNCHANGED <<mainHist, files, filtered_data, final_data, fetchVars, rng>>

\* a call processor.save_json(value.v, name) at line `at`, continuing at `to`;
\* main does not look at what save_json returns.
MainSave(at, value, name, to) ==
    /\ m_pc = at
    /\ \E outcome \in SaveOutcomes :
       \E written \in (IF outcome = "write_fails" THEN PartialLengths(value.v) ELSE {0}) :
         /\ files' = [files EXCEPT ![name] = SavedFile(files[name], value.v, outcome, written)]
         /\ m_trace' = Append(m_trace, IF SaveReturns(outcome) THEN "saved_" \o name
                                                         ELSE "save_failed_" \o name)
    /\ m_pc' = to
    /\ UNCHANGED <<mainHist, raw_data, filtered_data, final_data, fetchVars, rng>>

\* line 215
MainSaveRaw == MainSave("L215", raw_data, "raw", "L217")

\* variant: the test of line 217 is left out
MainCheckRawLeftOut ==
    /\ m_pc = "L217"
    /\ m_pc' = "L219"
    /\ UNCHANGED <<mainHist, files, raw_data, filtered_data, final_data, m_trace, fetchVars, rng>>

\* line 217: if raw_data
MainCheckRaw ==
    /\ m_pc = "L217"
    /\ m_pc' = IF Truthy(raw_data) THEN "L219" ELSE "done"
    /\ UNCHANGED <<mainHist, files, raw_data, filtered_data, final_data, m_trace, fetchVars, rng>>

\* lines 219-224: the filter; an exception it raises is caught at line 237
MainFilter ==
    /\ m_pc = "L219"
    /\ LET r == filter_by_date_range(raw_data.v, MainStartYear, MainEndYear, "date_rptd") IN
         IF r.tag = "list"
         THEN /\ filtered_data' = r
              /\ m_pc' = "L225"
              /\ m_trace' = Append(m_trace, "filter")
         ELSE /\ filtered_data' = filtered_data
              /\ m_pc' = "L238"
              /\ m_trace' = Append(m_trace, "filter_raised")
    /\ UNCHANGED <<mainHist, files, raw_data, final_data, fetchVars, rng>>

\* line 225
MainSaveFiltered == MainSave("L225", filtered_data, "filtered", "L228")

\* lines 228-232: the sampler
MainSample ==
    /\ m_pc = "L228"
    /\ LET r == random_sample(rng, filtered_data.v, MainSampleSize, MainSeed) IN
         /\ final_data' = r.out
         /\ rng' = r.rng
    /\ m_pc' = "L233"
    /\ m_trace' = Append(m_trace, "sample")
    /\ UNCHANGED <<mainHist, files, raw_data, filtered_data, fetchVars>>

\* line 233
MainSaveFinal == MainSave("L233", final_data, "final", "L235")

\* line 235: "Data processing completed successfully"
MainLogCompleted ==
    /\ m_pc = "L235"
    /\ m_pc' = "done"
    /\ m_trace' = Append(m_trace, "completed")
    /\ UNCHANGED <<mainHist, files, raw_data, filtered_data, final_data, fetchVars, rng>>

\* lines 237-238: the exception is logged and main ends
MainExcept ==
    /\ m_pc = "L238"
    /\ m_pc' = "done"
    /\ m_trace' = Append(m_trace, "error_logged")
    /\ UNCHANGED <<mainHist, files, raw_data, filtered_data, final_data, fetchVars, rng>>

\* main is started a second time (line 241) after the first run has ended: a new
\* process, whose locals are unbound and whose generator is in some state;
\* the files and the remote collection are as the first run left them.
MainRunAgain ==
    /\ m_pc = "done"
    /\ m_run = 1
    /\ m_run' = 2
    /\ files1' = files
    /\ m_pc' = "L209"
    /\ raw_data' = Pending
    /\ filtered_data' = Pending
    /\ final_data' = Pending
    /\ m_trace' = Append(m_trace, "run_again")
    /\ fpc' = "idle"
    /\ all_data' = <<>>
    /\ offset' = 0
    /\ retries' = 0
    /\ fresult' = Pending
    /\ reqlog' = <<>>
    /\ rng' \in {0, 5}
    /\ UNCHANGED <<files, files0, limit, max_retries, remote>>

\* The records main meets in the model: one the filter keeps, one it drops,
\* one whose date field is a number.
MainPool ==
    {[dr_no |-> 1, date_rptd |-> StrV(SlashInRange)],
     [dr_no |-> 2, date_rptd |-> StrV(SlashAbove)],
     [dr_no |-> 3, date_rptd |-> NumV]}

\* What an earlier run may have left in a checkpoint file.
OldList == <<[dr_no |-> 4, date_rptd |-> StrV(AmPmInRange)]>>

----------------------------------------------------------------------------
(* Specifications *)

\* The components a specification does not exercise stay in these states.
IdleFetch ==
    /\ limit = 1
    /\ max_retries = 1
    /\ remote = <<>>
    /\ fpc = "idle"
    /\ all_data = <<>>
    /\ offset = 0
    /\ retries = 0
    /\ fresult = Pending
    /\ reqlog = <<>>

IdleFilter ==
    /\ f_data = <<>>
    /\ f_data_in = <<>>
    /\ f_start_year = 0
    /\ f_end_year = 0
    /\ f_out = Pending
    /\ v3_out = Pending
    /\ f_out2 = Pending

IdleSample ==
    /\ s_data = <<>>
    /\ s_size = 0
    /\ s_seed = 0
    /\ s_calls = 0
    /\ s_first = Pending
    /\ s_last = Pending
    /\ s_disturbed = FALSE

IdleMain ==
    /\ files = [name \in {"raw", "filtered", "final"} |-> NoFile]
    /\ m_pc = "idle"
    /\ raw_data = Pending
    /\ filtered_data = Pending
    /\ final_data = Pending
    /\ m_trace = <<>>
    /\ files0 = files
    /\ m_run = 1
    /\ files1 = files

RemoteOf(n) == [i \in 1..n |-> i]

InitFetch ==
    /\ limit \in 1..MaxLimit
    /\ max_retries \in 0..MaxRetriesArg
    /\ remote \in {RemoteOf(n) : n \in 0..MaxRemote}
    /\ fpc = "idle"
    /\ all_data = <<>>
    /\ offset = 0
    /\ retries = 0
    /\ fresult = Pending
    /\ reqlog = <<>>
    /\ rng = 0
    /\ IdleFilter
    /\ IdleSample
    /\ IdleMain

NextFetch ==
    \/ FetchEnter /\ UNCHANGED <<filterVars, rng, sampleVars, mainVars>>
    \/ FetchWhileTrue /\ UNCHANGED <<filterVars, rng, sampleVars, mainVars>>
    \/ FetchWhileRetries /\ UNCHANGED <<filterVars, rng, sampleVars, mainVars>>
    \/ FetchPageOk /\ UNCHANGED <<filterVars, rng, sampleVars, mainVars>>
    \/ FetchPageFail /\ UNCHANGED <<filterVars, rng, sampleVars, mainVars>>

SpecFetch == InitFetch /\ [][NextFetch]_vars

\* The interpreter keeps executing the function until it returns.
FairSpecFetch == SpecFetch /\ WF_vars(NextFetch)

\* ---- the date filters, applied to every small record sequence

\* a call filter_by_date_range(f_data, f_start_year, f_end_year, "date_rptd")
FilterCall ==
    /\ f_out = Pending
    /\ f_out' = filter_by_date_range(f_data, f_start_year, f_end_year, "date_rptd")
    /\ UNCHANGED <<f_data, f_data_in, f_start_year, f_end_year, v3_out, f_out2>>

\* a second call filter_by_date_range(out, f_start_year, f_end_year, "date_rptd")
\* on the list out that the first call returned
FilterAgain ==
    /\ f_out.tag = "list"
    /\ f_out2 = Pending
    /\ f_out2' = filter_by_date_range(f_out.v, f_start_year, f_end_year, "date_rptd")
    /\ UNCHANGED <<f_data, f_data_in, f_start_year, f_end_year, f_out, v3_out>>

\* the filter loop of process_data over the same records
V3FilterCall ==
    /\ v3_out = Pending
    /\ v3_out' = v3_filter(f_data)
    /\ UNCHANGED <<f_data, f_data_in, f_start_year, f_end_year, f_out, f_out2>>

InitFilter ==
    /\ f_data \in SeqsUpTo(EntryPool, MaxRecords)
    /\ f_data_in = f_data
    /\ \E yp \in YearPairs : f_start_year = yp[1] /\ f_end_year = yp[2]
    /\ f_out = Pending
    /\ v3_out = Pending
    /\ f_out2 = Pending
    /\ rng = 0
    /\ IdleFetch
    /\ IdleSample
    /\ IdleMain

NextFilter ==
    \/ FilterCall /\ UNCHANGED <<fetchVars, rng, sampleVars, mainVars>>
    \/ V3FilterCall /\ UNCHANGED <<fetchVars, rng, sampleVars, mainVars>>
    \/ FilterAgain /\ UNCHANGED <<fetchVars, rng, sampleVars, mainVars>>

SpecFilter == InitFilter /\ [][NextFilter]_vars

\* ---- random_sample, called twice with the same arguments, with other use
\* of the generator in between

\* a call random_sample(s_data, s_size, s_seed)
SampleCall ==
    /\ s_calls < 2
    /\ LET r == random_sample(rng, s_data, s_size, s_seed) IN
         /\ rng' = r.rng
         /\ s_last' = r.out
         /\ s_first' = IF s_calls = 0 THEN r.out ELSE s_first
    /\ s_calls' = s_calls + 1
    /\ UNCHANGED <<s_data, s_size, s_seed, s_disturbed>>

\* other code draws from the process-wide generator
OtherDraw ==
    /\ rng' = RngNext(rng)
    /\ s_disturbed' = (s_disturbed \/ s_calls = 1)
    /\ UNCHANGED <<s_data, s_size, s_seed, s_calls, s_first, s_last>>

\* a call of random_sample with another seed
OtherSampleCall ==
    /\ \E seed \in 0..MaxSeed :
         /\ seed # s_seed
         /\ rng' = random_sample(rng, s_data, s_size, seed).rng
    /\ s_disturbed' = (s_disturbed \/ s_calls = 1)
    /\ UNCHANGED <<s_data, s_size, s_seed, s_calls, s_first, s_last>>

InitSample ==
    /\ rng \in RngStates
    /\ s_data \in SeqsUpTo(SamplePool, MaxSampleData)
    /\ s_size \in 0..MaxSampleSize
    /\ s_seed \in 0..MaxSeed
    /\ s_calls = 0
    /\ s_first = Pending
    /\ s_last = Pending
    /\ s_disturbed = FALSE
    /\ IdleFetch
    /\ IdleFilter
    /\ IdleMain

NextSample ==
    \/ SampleCall /\ UNCHANGED <<fetchVars, filterVars, mainVars>>
    \/ OtherDraw /\ UNCHANGED <<fetchVars, filterVars, mainVars>>
    \/ OtherSampleCall /\ UNCHANGED <<fetchVars, filterVars, mainVars>>

SpecSample == InitSample /\ [][NextSample]_vars

\* ---- main, run once against every small remote collection and every
\* state of the output directory

InitMain ==
    /\ limit = DefaultLimit
    /\ max_retries = DefaultMaxRetries
    /\ remote \in SeqsUpTo(MainPool, MaxMainRecords)
    /\ fpc = "idle"
    /\ all_data = <<>>
    /\ offset = 0
    /\ retries = 0
    /\ fresult = Pending
    /\ reqlog = <<>>
    /\ rng \in {0, 5}
    /\ \E rawfile \in {NoFile, FileWith(<<Tok("[")>>), FileWith(JsonDump(<<>>)),
                       FileWith(JsonDump(remote)), FileWith(JsonDump(OldList))} :
       \E old \in {NoFile, FileWith(JsonDump(OldList))} :
         files \in {[raw |-> rawfile, filtered |-> old, final |-> old]}
    /\ m_pc = "L209"
    /\ raw_data = Pending
    /\ filtered_data = Pending
    /\ final_data = Pending
    /\ m_trace = <<>>
    /\ files0 = files
    /\ m_run = 1
    /\ files1 = files
    /\ IdleFilter
    /\ IdleSample

NextMain ==
    \/ MainLoadRaw /\ UNCHANGED <<filterVars, sampleVars>>
    \/ MainCallFetch /\ UNCHANGED <<filterVars, sampleVars>>
    \/ MainFetching(FetchWhileTrue) /\ UNCHANGED <<filterVars, sampleVars>>
    \/ MainFetching(FetchWhileRetries) /\ UNCHANGED <<filterVars, sampleVars>>
    \/ MainFetching(FetchPageOk) /\ UNCHANGED <<filterVars, sampleVars>>
    \/ MainFetching(FetchPageFail) /\ UNCHANGED <<filterVars, sampleVars>>
    \/ MainFetchReturns /\ UNCHANGED <<filterVars, sampleVars>>
    \/ MainSaveRaw /\ UNCHANGED <<filterVars, sampleVars>>
    \/ MainCheckRaw /\ UNCHANGED <<filterVars, sampleVars>>
    \/ MainFilter /\ UNCHANGED <<filterVars, sampleVars>>
    \/ MainSaveFiltered /\ UNCHANGED <<filterVars, sampleVars>>
    \/ MainSample /\ UNCHANGED <<filterVars, sampleVars>>
    \/ MainSaveFinal /\ UNCHANGED <<filterVars, sampleVars>>
    \/ MainLogCompleted /\ UNCHANGED <<filterVars, sampleVars>>
    \/ MainExcept /\ UNCHANGED <<filterVars, sampleVars>>

SpecMain == InitMain /\ [][NextMain]_vars

\* ---- main, run a second time over the files the first run left

InitRerun ==
    /\ InitMain
    /\ rng = 0
    /\ files["raw"] \in {NoFile, FileWith(JsonDump(remote))}
    /\ files["filtered"] = NoFile

NextRerun ==
    \/ NextMain
    \/ MainRunAgain /\ UNCHANGED <<filterVars, sampleVars>>

SpecRerun == InitRerun /\ [][NextRerun]_vars

----------------------------------------------------------------------------
(* Claims about fetch_data_with_pagination *)

OkBefore(i) == Cardinality({j \in 1..(i - 1) : reqlog[j].ok})
OkCount == Cardinality({j \in 1..Len(reqlog) : reqlog[j].ok})
FailCount == Cardinality({j \in 1..Len(reqlog) : ~reqlog[j].ok})

\* max_retries consecutive failed requests end at position i of the history
FailRunEndsAt(i) ==
    /\ i >= max_retries
    /\ \A j \in (i - max_retries + 1)..i : ~reqlog[j].ok

\* C1: the i-th request carries offset limit * (number of successful requests
\* before it): offsets run 0, L, 2L, ..., a retry re-uses the offset; and a
\* successful page that is empty or shorter than L is the last request, after
\* which the function has returned.
C1_OffsetsAdvanceByLimit ==
    /\ \A i \in 1..Len(reqlog) : reqlog[i].offset = limit * OkBefore(i)
    /\ \A i \in 1..Len(reqlog) :
          (reqlog[i].ok /\ reqlog[i].n < limit) => (i = Len(reqlog) /\ fpc = "returned")

C1_Witness ==
    /\ fpc = "returned"
    /\ limit = 2
    /\ OkCount = 3
    /\ FailCount >= 2
    /\ reqlog[Len(reqlog)].offset = 4

\* C2: when no page failed max_retries times in a row, the function returns
\* exactly the remote records, once each and in remote order, after
\* floor(N / L) + 1 successful requests.
C2_ReturnsWholeCollection ==
    (fpc = "returned" /\ ~(\E i \in 1..Len(reqlog) : FailRunEndsAt(i)))
        => /\ fresult = PyList(remote)
           /\ OkCount = (Len(remote) \div limit) + 1

\* the analogue of scenario C: N a multiple of L, the last page is empty
C2_Witness ==
    /\ fpc = "returned"
    /\ Len(remote) = 4
    /\ limit = 2
    /\ FailCount >= 1
    /\ fresult = PyList(remote)
    /\ OkCount = 3
    /\ reqlog[Len(reqlog)].n = 0

\* C3: once max_retries (>= 1) consecutive attempts have failed, that attempt
\* is the last request, the function has returned, and it returned None, not
\* the records accumulated so far.
C3_ExhaustedReturnsNone ==
    \A i \in 1..Len(reqlog) :
        (max_retries >= 1 /\ FailRunEndsAt(i))
            => (i = Len(reqlog) /\ fpc = "returned" /\ fresult = None)

C3_Witness ==
    /\ fpc = "returned"
    /\ fresult = None
    /\ max_retries = 3
    /\ Len(all_data) >= 2
    /\ FailRunEndsAt(Len(reqlog))

\* C4: every call eventually returns (a Record Set or None).
C4_EventuallyReturns == <>(fpc = "returned")

\* With max_retries >= 1 the call does return.
FetchReturnsWhenRetriesPositive == (max_retries >= 1) => <>(fpc = "returned")

----------------------------------------------------------------------------
(* Claims about the date filters *)

StripTrailingZ(s) ==
    IF Len(s) >= 1 /\ s[Len(s)] = "Z" THEN SubSeq(s, 1, Len(s) - 1) ELSE s

\* The three known encodings of a date field value: ISO-8601 with optional
\* fractional seconds and optional trailing Z, MM/DD/YYYY, and
\* YYYY Mon DD HH:MM:SS AM/PM.
KnownEncodings(s) ==
    <<[str |-> StripTrailingZ(s), fmt |-> v3_format],
      [str |-> StripTrailingZ(s), fmt |-> date_formats[1]],
      [str |-> s, fmt |-> date_formats[2]],
      [str |-> s, fmt |-> date_formats[3]]>>

\* The year a date field value denotes in one of the known encodings.
KnownEncodingYear(s) ==
    LET enc == KnownEncodings(s)
        hits == {k \in 1..Len(enc) : Strptime(enc[k].str, enc[k].fmt).ok}
    IN  IF hits = {} THEN ValueError
        ELSE LET k == CHOOSE k \in hits : TRUE IN Strptime(enc[k].str, enc[k].fmt)

HasDateString(entry) ==
    "date_rptd" \in DOMAIN entry /\ entry["date_rptd"].t = "str"

\* The record is to be kept: it has the date field, in a known encoding, with
\* a year within the bounds.
ToBeKept(entry) ==
    /\ HasDateString(entry)
    /\ KnownEncodingYear(entry["date_rptd"].s).ok
    /\ f_start_year <= KnownEncodingYear(entry["date_rptd"].s).year
    /\ KnownEncodingYear(entry["date_rptd"].s).year <= f_end_year

RECURSIVE IsSubseq(_, _)
IsSubseq(a, b) ==
    IF a = <<>> THEN TRUE
    ELSE IF b = <<>> THEN FALSE
    ELSE IF Head(a) = Head(b)
         THEN IsSubseq(Tail(a), Tail(b)) \/ IsSubseq(a, Tail(b))
         ELSE IsSubseq(a, Tail(b))

\* C5: filter_by_date_range keeps exactly the records that have the date
\* field in one of the three known encodings with start_year <= year <=
\* end_year (so an in-range ISO value with fractional seconds is kept).
C5_KeepsIffKnownEncodingInRange ==
    f_out.tag = "list" => f_out.v = SelectSeq(f_data, ToBeKept)

\* C6: what filter_by_date_range returns is a subsequence of its input, the
\* input is as it was passed in, and every returned record's year lies within
\* the bounds.
C6_OutputIsSubsequenceInRange ==
    f_out.tag = "list" =>
        /\ IsSubseq(f_out.v, f_data_in)
        /\ f_data = f_data_in
        /\ \A i \in 1..Len(f_out.v) : ToBeKept(f_out.v[i])

C6_Witness ==
    /\ f_out.tag = "list"
    /\ Len(f_data) = 3
    /\ f_out.v = <<f_data[1], f_data[3]>>
    /\ f_data[1] # f_data[3]
    /\ f_start_year = 2013

\* C7: the date filters run to completion on every record sequence: a record
\* whose date field is absent, unparseable or not a string is skipped and the
\* remaining records are filtered.
C7_BadRecordNeverAborts ==
    /\ f_out # Pending =>
          /\ f_out.tag = "list"
          /\ f_out.v = filter_by_date_range(SelectSeq(f_data, HasDateString),
                                            f_start_year, f_end_year, "date_rptd").v
    /\ v3_out # Pending => v3_out.tag = "list"

----------------------------------------------------------------------------
(* Claims about random_sample *)

\* C8: random_sample returns min(sample_size, len(data)) records taken from
\* pairwise distinct positions of data.
C8_SampleSizeAndMembers ==
    s_calls >= 1 =>
        /\ s_last.tag = "list"
        /\ Len(s_last.v) = Min(s_size, Len(s_data))
        /\ \E pos \in [1..Len(s_last.v) -> 1..Len(s_data)] :
              /\ \A i, j \in 1..Len(s_last.v) : i # j => pos[i] # pos[j]
              /\ \A i \in 1..Len(s_last.v) : s_last.v[i] = s_data[pos[i]]

C8_Witness ==
    /\ s_calls >= 1
    /\ Len(s_data) = 4
    /\ s_size = 3
    /\ Len(s_last.v) = 3
    /\ s_last.v # SubSeq(s_data, 1, 3)

\* C9: a second call with the same records, sample size and seed returns what
\* the first returned, whatever happened to the generator in between.
C9_SameArgumentsSameSample ==
    s_calls = 2 => s_last = s_first

C9_Witness ==
    /\ s_calls = 2
    /\ s_disturbed
    /\ Len(s_data) = 4
    /\ s_size = 2
    /\ s_last = s_first
    /\ s_last.v # SubSeq(s_data, 1, 2)

----------------------------------------------------------------------------
(* Claims about main *)

IsStage(e) == e \in {"fetch", "filter", "filter_raised", "sample"}
StageName(e) == IF e = "filter_raised" THEN "filter" ELSE e
StagesRun == [i \in 1..Len(SelectSeq(m_trace, IsStage)) |-> StageName(SelectSeq(m_trace, IsStage)[i])]
HasRun(e) == \E i \in 1..Len(m_trace) : m_trace[i] = e

\* C10: the stages run in the order fetch, filter, sample; once the filter has
\* started the raw checkpoint file holds the raw data, and once the sampler
\* has started the filtered checkpoint file holds the filtered data.
C10_CheckpointWrittenBeforeNextStage ==
    /\ IsSubseq(StagesRun, <<"fetch", "filter", "sample">>)
    /\ (HasRun("filter") \/ HasRun("filter_raised"))
          => files["raw"] = FileWith(JsonDump(raw_data.v))
    /\ HasRun("sample") => files["filtered"] = FileWith(JsonDump(filtered_data.v))

\* the raw checkpoint file main found holds a Record Set (a JSON list)
RawCheckpointHeld == files0["raw"].exists /\ JsonLoad(files0["raw"].text).tag = "list"

\* C11: once the first run of main is past the load of line 209 (the file,
\* when there is one, was read without an error): if the raw checkpoint file
\* held a Record Set, empty or not, no fetch is started and raw_data is what
\* the file held; if there was no file, the fetch is started.
C11_FetchIffRawCheckpointAbsent ==
    (m_run = 1 /\ m_pc # "L209" /\ ~HasRun("raw_read_failed")) =>
        /\ RawCheckpointHeld =>
              /\ m_pc # "L213"
              /\ ~HasRun("fetch")
              /\ raw_data = JsonLoad(files0["raw"].text)
        /\ ~files0["raw"].exists => (m_pc = "L213" \/ HasRun("fetch"))

\* the filtered checkpoint file main found holds a Record Set
FilteredCheckpointHeld ==
    files0["filtered"].exists /\ JsonLoad(files0["filtered"].text).tag = "list"

\* C12: when a filtered checkpoint was present at the start of main, the
\* sampler has run in the first run only without a fetch and without a
\* filter before it, and its input was the list the filtered checkpoint held.
C12_SampleResumesFromFilteredCheckpoint ==
    (m_run = 1 /\ FilteredCheckpointHeld /\ HasRun("sample")) =>
        /\ ~HasRun("fetch")
        /\ ~HasRun("filter")
        /\ filtered_data = JsonLoad(files0["filtered"].text)
        /\ final_data = random_sample(0, filtered_data.v, MainSampleSize, MainSeed).out

SaveFailedEvents == {"save_failed_raw", "save_failed_filtered", "save_failed_final"}
SavedEvents == {"saved_raw", "saved_filtered", "saved_final"}

\* C13: after a save_json call that reported failure main runs no stage,
\* makes no further save and does not log "Data processing completed
\* successfully".
C13_FailedSaveHaltsPipeline ==
    \A i \in 1..Len(m_trace) :
        m_trace[i] \in SaveFailedEvents =>
            \A j \in (i + 1)..Len(m_trace) :
                /\ ~IsStage(m_trace[j])
                /\ m_trace[j] \notin SavedEvents \cup SaveFailedEvents
                /\ m_trace[j] # "completed"

\* the step is a save_json or load_json call that failed
FailedSaveOrLoadStep ==
    /\ Len(m_trace') = Len(m_trace) + 1
    /\ m_trace'[Len(m_trace')] \in SaveFailedEvents \cup {"raw_read_failed"}

\* C14: a save_json or load_json call that fails leaves every checkpoint file
\* that held a Record Set before the call, the one at the path being written
\* included, holding that same Record Set after it.
C14_FailedSaveKeepsCheckpoints ==
    [][FailedSaveOrLoadStep =>
         \A name \in DOMAIN files :
             (files[name].exists /\ JsonLoad(files[name].text).tag = "list") =>
                 /\ files'[name].exists
                 /\ JsonLoad(files'[name].text) = JsonLoad(files[name].text)]_vars

\* what the first and the second run of main have done (m_run = 2)
RunAgainAt == CHOOSE i \in 1..Len(m_trace) : m_trace[i] = "run_again"
FirstRunTrace == SubSeq(m_trace, 1, RunAgainAt - 1)
SecondRunTrace == SubSeq(m_trace, RunAgainAt + 1, Len(m_trace))
Occurs(e, trace) == \E i \in 1..Len(trace) : trace[i] = e

\* the first run went through all stages and none of its saves failed
FirstRunSavedCheckpoints ==
    /\ Occurs("completed", FirstRunTrace)
    /\ \A e \in SaveFailedEvents : ~Occurs(e, FirstRunTrace)

\* C15: in a second run of main after a run that saved its checkpoints (the
\* raw checkpoint being read without an error), the raw data is loaded from
\* the raw checkpoint, nothing is fetched, and when the run has ended the
\* three files are as the first run left them.
C15_SecondRunLeavesCheckpoints ==
    (/\ m_run = 2
     /\ FirstRunSavedCheckpoints
     /\ m_pc # "L209"
     /\ ~Occurs("raw_read_failed", SecondRunTrace)) =>
        /\ Occurs("raw_loaded", SecondRunTrace)
        /\ ~Occurs("fetch", SecondRunTrace)
        /\ m_pc = "done" => files = files1

\* the same, for second runs in which no save fails
C15_WithoutFailedSave ==
    (m_run = 2 /\ \E e \in SaveFailedEvents : Occurs(e, SecondRunTrace))
        \/ C15_SecondRunLeavesCheckpoints

----------------------------------------------------------------------------
(* Further claims about the date filters and the fetch *)

\* C16: when filter_by_date_range has returned a list and is called on that
\* list with the same bounds and date field, it returns that same list.
C16_FilterIsIdempotent ==
    f_out2 # Pending => f_out2 = f_out

C16_Witness ==
    /\ f_out2 = f_out
    /\ Len(f_out.v) = 2
    /\ f_out.v[1] # f_out.v[2]
    /\ Len(f_data) = 3

\* the requests issued for offset o
RequestsAt(o) == {i \in 1..Len(reqlog) : reqlog[i].offset = o}

\* the number of failed requests at the end of the history
RECURSIVE TrailingFails(_)
TrailingFails(i) ==
    IF i = 0 \/ reqlog[i].ok THEN 0 ELSE 1 + TrailingFails(i - 1)

\* C17: with max_retries >= 1, the call has returned None exactly when the
\* last max_retries requests failed; no offset is requested more than
\* max_retries times; the records of every page that was answered, after
\* however many failures, are in all_data; and the failure count of the page
\* being requested is the number of failures since the last answered request,
\* failures on earlier pages not counted.
C17_RetriesCountedPerPage ==
    max_retries >= 1 =>
        /\ (fpc = "returned" /\ fresult = None) <=> (\E i \in 1..Len(reqlog) : FailRunEndsAt(i))
        /\ \A i \in 1..Len(reqlog) : Cardinality(RequestsAt(reqlog[i].offset)) <= max_retries
        /\ \A i \in 1..Len(reqlog) :
               reqlog[i].ok =>
                   SubSeq(all_data, reqlog[i].offset + 1, reqlog[i].offset + reqlog[i].n)
                       = Page(remote, reqlog[i].offset, limit)
        /\ fpc \in {"while_retries", "request"} =>
               /\ retries = TrailingFails(Len(reqlog))
               /\ \A i \in (Len(reqlog) - retries + 1)..Len(reqlog) : reqlog[i].offset = offset

\* failures on the first page, then max_retries - 1 failures on the second
\* page before it is answered
C17_Witness ==
    /\ max_retries = 3
    /\ fpc = "returned"
    /\ fresult = PyList(remote)
    /\ Len(reqlog) >= 6
    /\ ~reqlog[1].ok /\ ~reqlog[2].ok /\ reqlog[3].ok
    /\ ~reqlog[4].ok /\ ~reqlog[5].ok /\ reqlog[6].ok
    /\ reqlog[6].offset = limit
    /\ reqlog[6].n >= 1

\* C18: over the same records and with the bounds 2013 and 2019,
\* filter_by_date_range of Preprocessingv2 and the filter loop of
\* Preprocessingv3 end the same way: they keep the same records in the same
\* order.
C18_FilterVariantsAgree ==
    (f_start_year = 2013 /\ f_end_year = 2019 /\ f_out # Pending /\ v3_out # Pending)
        => f_out = v3_out

----------------------------------------------------------------------------
(* Further claims about main *)

\* the Record Set a checkpoint file holds
Held(name) == JsonLoad(files[name].text)

\* C19: when main has logged "Data processing completed successfully", the
\* three checkpoint files each hold a Record Set, the filtered one holds the
\* raw one filtered by 2013, 2019 and "date_rptd", and the final one holds the
\* sample of size 10000 with seed 1 of the filtered one.
C19_CheckpointsConsistentAtCompletion ==
    (m_run = 1 /\ HasRun("completed")) =>
        /\ \A name \in DOMAIN files : files[name].exists /\ Held(name).tag = "list"
        /\ Held("filtered") = filter_by_date_range(Held("raw").v, MainStartYear,
                                                    MainEndYear, "date_rptd")
        /\ Held("final") = random_sample(0, Held("filtered").v, MainSampleSize, MainSeed).out

\* the same, for runs in which no save has failed
C19_WithoutFailedSave ==
    (\E e \in SaveFailedEvents : HasRun(e)) \/ C19_CheckpointsConsistentAtCompletion

\* C20: when main found no raw checkpoint file and the fetch has returned
\* None, the three files are as they were when main started, no save has
\* been attempted, and neither the filter nor the sampler has run.
C20_FailedFetchWritesNothing ==
    (m_run = 1 /\ ~files0["raw"].exists /\ HasRun("fetch_failed")) =>
        /\ files = files0
        /\ \A e \in SavedEvents \cup SaveFailedEvents : ~HasRun(e)
        /\ \A e \in {"filter", "filter_raised", "sample", "completed"} : ~HasRun(e)
        /\ m_pc \in {"L217", "done"}

C20_Witness ==
    /\ ~files0["raw"].exists
    /\ files0["filtered"].exists
    /\ HasRun("fetch_failed")
    /\ Len(reqlog) = DefaultMaxRetries
    /\ m_pc = "done"
    /\ files = files0

====
